---- MODULE Spec2Model ----
(***************************************************************************)
(* Transaction lifecycle of the cattle marketplace backend                 *)
(* (src/BackEnd/main.py): listings, proposals, deposit payment, weighing,  *)
(* final settlement and slaughterhouse submission.                         *)
(*                                                                         *)
(* Every JSON collection is a sequence of records (a Python list of        *)
(* dicts); a dict key that is not set is a field that is not in the        *)
(* record's DOMAIN.  Each request handler is one action; the HTTP status   *)
(* it answers with is recorded in `last`, with the handler's name.         *)
(*                                                                         *)
(* Units: masses and head counts are integers; a yield rate is in          *)
(* hundredths (52 is 0.52); prices and fees are whole currency units;      *)
(* at_quantity is in hundredths of a unit and amounts are in cents, which  *)
(* is what round(x, 2) keeps.                                              *)
(***************************************************************************)
EXTENDS Integers, Sequences, FiniteSets, TLC

VARIABLES users, farmers, buyers, proposals, weights, transactions,
          notifications, uuid, last, threads, started

vars == <<users, farmers, buyers, proposals, weights, transactions,
          notifications, uuid, last, threads, started>>

(* ------------------------------ bounds -------------------------------- *)
MaxListings == 1
MaxProposals == 2
MaxWeights == 1
MaxTransactions == 2
MaxNotifs == 6
MaxBatches == 2
MaxOffers == 1
MaxSupply == 2
MaxDemand == 2
MaxRequests == 3

(* ------------------------ inputs of the requests ----------------------- *)
Users == {"farmer1", "buyer1", "buyer2"}
Farmers == {"farmer1"}
Races == {"Nelore"}
Quantities == {10}
Prices == {300}
Actions == {"accept", "reject", "cancel"}
BatchQuantities == {5, 10}
BatchWeights == {3000}
FinalWeights == {4500}
YieldRates == {52, 60}
TransportFees == {200}
FunruralTaxes == {100}

\* inputs of the weighing and settlement requests, for SpecSettle
SettleUsers == {"farmer1", "buyer1"}
SettleBuyers == {"buyer1"}
SettlePrices == {300, 301}
SettleMasses == {1500, 1600}
SettleYields == {47, 48, 52, 55, 56}
SettleFinalWeights == {4500, 4600}

\* inputs of the requests that are run step by step, for SpecRace and
\* SpecCrash
RaceUsers == {"buyer1", "buyer2"}
RaceActions == {"accept", "reject"}

\* inputs of the owner's requests on a listing, for SpecClose
EstimatedWeights == {4400}
PautaValues == {1000}

\* inputs of the listing, demand and proposal requests, for SpecMarket
MarketUsers == {"farmer1", "buyer1"}
MarketRaces == {"Nelore", "Angus"}

(* --------------------------- HTTP statuses ----------------------------- *)
OK == 200
InvalidState == 400
Forbidden == 403
NotFound == 404
Unprocessable == 422
ServerError == 500

None == "None"

(* ------------------------------ helpers -------------------------------- *)
\* next((x for x in seq if ...), None), as the index of the first match (0
\* when there is none); matches is the set of the indices that match.
FirstIndex(matches) ==
    IF matches = {} THEN 0
    ELSE CHOOSE i \in matches : \A j \in matches : i <= j

\* next((x for x in seq if x['id'] == id), None), as an index
IndexOfId(seq, id) == FirstIndex({i \in 1..Len(seq) : seq[i].id = id})

\* dict.get(key, default)
Get(rec, key, default) == IF key \in DOMAIN rec THEN rec[key] ELSE default

\* dict.update(upd)
Update(rec, upd) == upd @@ rec

\* ids of the records of a collection
Ids(seq) == {seq[i].id : i \in 1..Len(seq)}

\* an id taken from a collection, or one no record has (uuid4 never gave it)
IdInputs(seq) == Ids(seq) \cup {uuid + 1}

\* round(n / d, 0) for d > 0, halves to the even neighbour (Python's round)
RoundDiv(n, d) ==
    LET q == n \div d
        r == n % d
    IN  IF 2 * r < d THEN q
        ELSE IF 2 * r > d THEN q + 1
        ELSE IF q % 2 = 0 THEN q ELSE q + 1

RECURSIVE SumOver(_, _)
SumOver(seq, field) ==
    IF seq = << >> THEN 0
    ELSE Head(seq)[field] + SumOver(Tail(seq), field)

\* ListingWeights with a filter no entry passes (a key the entries lack)
ListingWeights_noMatch(ws, listing_id) ==
    SelectSeq(ws, LAMBDA w : "listing" \in DOMAIN w)

\* [w for w in weights if w['listing_id'] == listing_id]
ListingWeights(ws, listing_id) ==
    SelectSeq(ws, LAMBDA w : w.listing_id = listing_id)

\* save_notification: one record appended to the notification collection
save_notification(notifs, user_id, title, about) ==
    Append(notifs, [user_id |-> user_id, message |-> title, about |-> about])

\* what `last` keeps of a request: the handler, the id in its path or body
\* and the HTTP status of the response
Result(op, id, status) == [op |-> op, id |-> id, status |-> status]

(* ------------------------- requests in progress ------------------------ *)
\* Handlers run in the server's thread pool.  A request that is run step by
\* step (one step for each load_json or save_json it makes) occupies a slot;
\* the record of the slot keeps what the handler holds in memory:
\*   op, id, action, user   the request
\*   pc                     the next step ("idle" for a slot never used,
\*                          "done" after the response, "failed" after an
\*                          exception between two steps)
\*   P, F, N                the lists it loaded from the proposal, listing
\*                          and notification files, with its changes
\*   rec                    the record it appends (id 0 if none)
\*   notify                 the user its notification is for
\*   before                 status its proposal had when it was loaded
\*   saved_farmers, saved_proposals   it has written that file
\*   status                 HTTP status of its response
Slots == {1, 2}

IdleThread ==
    [op |-> "idle", id |-> 0, action |-> "", user |-> None, pc |-> "idle",
     P |-> << >>, F |-> << >>, N |-> << >>, rec |-> [id |-> 0],
     notify |-> None, before |-> "",
     saved_farmers |-> FALSE, saved_proposals |-> FALSE, status |-> OK]

\* the slot can take a new request
Free(t) == threads[t].pc \in {"idle", "done", "failed"}

(* ------------------------------- Init ---------------------------------- *)
\* The collections are empty files; the accounts the requests are made with
\* have been registered (one farmer, two buyers).
Init ==
    /\ users = << [username |-> "farmer1", role |-> "farmer"],
                  [username |-> "buyer1", role |-> "user"],
                  [username |-> "buyer2", role |-> "user"] >>
    /\ farmers = << >>
    /\ buyers = << >>
    /\ proposals = << >>
    /\ weights = << >>
    /\ transactions = << >>
    /\ notifications = << >>
    /\ uuid = 0
    /\ last = Result("none", 0, OK)
    /\ threads = [t \in Slots |-> IdleThread]
    /\ started = 0

(* ------------------------------ simple_match --------------------------- *)
\* IsMatch without the test of the status
IsMatch_anyStatus(t, race) == Get(t, "race", None) = race

\* the test of simple_match on one record of the opposite collection
IsMatch(t, race) ==
    Get(t, "race", None) = race /\ Get(t, "status", "OPEN") = "OPEN"

\* the count simple_match returns
MatchCount(targets, race) ==
    Cardinality({i \in 1..Len(targets) : IsMatch(targets[i], race)})

\* the notifications simple_match sends, in the order of its scan: one to the
\* owner of every matching record that has an owner
RECURSIVE MatchNotify(_, _, _, _, _)
MatchNotify(notifs, targets, race, title, about) ==
    IF targets = << >> THEN notifs
    ELSE LET t == Head(targets)
             sent == IF IsMatch(t, race) /\ Get(t, "owner_id", None) # None
                     THEN save_notification(notifs, t.owner_id, title, about)
                     ELSE notifs
         IN  MatchNotify(sent, Tail(targets), race, title, about)

(* --------------------------- POST /api/farmer --------------------------- *)
create_farmer(user, race, quantity) ==
    /\ farmers' = Append(farmers,
                         [id |-> uuid + 1, owner_id |-> user, race |-> race,
                          quantity |-> quantity, status |-> "OPEN"])
    /\ uuid' = uuid + 1
    /\ notifications' = MatchNotify(notifications, buyers, race,
                                    "New Match: Farmer", uuid + 1)
    /\ Len(notifications') <= MaxNotifs
    /\ last' = Update(Result("create_farmer", uuid + 1, OK),
                      [matches |-> MatchCount(buyers, race)])
    /\ UNCHANGED <<threads, started, users, buyers, proposals, weights, transactions>>

(* --------------------------- POST /api/buyer ---------------------------- *)
\* A demand record is stored without a status.
create_buyer(user, race) ==
    /\ buyers' = Append(buyers,
                        [id |-> uuid + 1, owner_id |-> user, race |-> race])
    /\ uuid' = uuid + 1
    /\ notifications' = MatchNotify(notifications, farmers, race,
                                    "New Match: Buyer", uuid + 1)
    /\ Len(notifications') <= MaxNotifs
    /\ last' = Update(Result("create_buyer", uuid + 1, OK),
                      [matches |-> MatchCount(farmers, race)])
    /\ UNCHANGED <<threads, started, users, farmers, proposals, weights, transactions>>

(* -------------------------- POST /api/proposals ------------------------- *)
\* role of the submitting user, from the user collection (None if absent)
RoleOf(user) ==
    LET u == FirstIndex({i \in 1..Len(users) : users[i].username = user})
    IN  IF u = 0 THEN None ELSE Get(users[u], "role", None)

\* create_proposal_status with the check of the listing's status left out
create_proposal_status_noOpenCheck(s, user) ==
    IF s = 0 THEN NotFound
    ELSE IF RoleOf(user) = "farmer" THEN InvalidState
    ELSE OK

\* The checks of create_proposal, in the order of the code: the status the
\* request is refused with, or OK.
create_proposal_status(s, user) ==
    IF s = 0 THEN NotFound
    ELSE IF Get(farmers[s], "status", None) # "OPEN" THEN InvalidState
    ELSE IF RoleOf(user) = "farmer" THEN InvalidState
    ELSE OK

create_proposal(supply_id, price_offer, user) ==
    LET s == IndexOfId(farmers, supply_id)
        st == create_proposal_status(s, user)
        new_prop == [id |-> uuid + 1, supply_id |-> supply_id,
                     buyer_id |-> user, price_offer |-> price_offer,
                     status |-> "PENDING"]
    IN  /\ last' = Result("create_proposal", supply_id, st)
        /\ IF st = OK
           THEN /\ proposals' = Append(proposals, new_prop)
                /\ uuid' = uuid + 1
                /\ notifications' =
                       save_notification(notifications, farmers[s].owner_id,
                                         "New Offer", new_prop.id)
                /\ Len(proposals') <= MaxProposals
                /\ Len(notifications') <= MaxNotifs
           ELSE UNCHANGED <<proposals, uuid, notifications>>
        /\ UNCHANGED <<threads, started, users, farmers, buyers, weights, transactions>>

(* --------------------- POST /api/proposals/{pid}/{action} --------------- *)
\* proposal_status_after with every action other than accept rejecting
proposal_status_after_elseReject(action, status) ==
    IF action = "accept" THEN "ACCEPTED" ELSE "REJECTED"

\* the proposal's status after the branch on the action: any action other
\* than reject and accept leaves it as it is
proposal_status_after(action, status) ==
    IF action = "reject" THEN "REJECTED"
    ELSE IF action = "accept" THEN "ACCEPTED"
    ELSE status

\* accepted_listing with the buyer reference not recorded
accepted_listing_noBuyer(supply, prop) ==
    Update(supply, [status |-> "AWAITING_PAYMENT"])

\* the listing as accept leaves it
accepted_listing(supply, prop) ==
    Update(supply, [status |-> "AWAITING_PAYMENT", buyer_id |-> prop.buyer_id])

\* The handler does not read the acting user, who is no parameter here.
handle_proposal(pid, action) ==
    LET p == IndexOfId(proposals, pid)
    IN  IF p = 0
        THEN /\ last' = Result("handle_proposal", pid, NotFound)
             /\ UNCHANGED <<threads, started, users, farmers, buyers, proposals, weights,
                            transactions, notifications, uuid>>
        ELSE LET prop == proposals[p]
                 s == IndexOfId(farmers, prop.supply_id)
             IN  /\ last' = Result("handle_proposal", pid, OK)
                 /\ proposals' =
                        [proposals EXCEPT
                            ![p].status = proposal_status_after(action, @)]
                 /\ IF action = "accept" /\ s # 0
                    THEN /\ farmers' =
                              [farmers EXCEPT ![s] = accepted_listing(@, prop)]
                         /\ notifications' =
                              save_notification(notifications, prop.buyer_id,
                                                "Offer Accepted", prop.id)
                         /\ Len(notifications') <= MaxNotifs
                    ELSE UNCHANGED <<farmers, notifications>>
                 /\ UNCHANGED <<threads, started, users, buyers, weights, transactions, uuid>>

(* ---------------------- POST /api/pay-reservation/{pid} ----------------- *)
\* pay_fee_status with the comparison of the buyer and the caller left out
pay_fee_status_noBuyerCheck(p, user) ==
    IF p = 0 THEN Forbidden
    ELSE IF IndexOfId(farmers, proposals[p].supply_id) = 0
    THEN NotFound
    ELSE OK

\* The checks of pay_fee, in the order of the code.
pay_fee_status(p, user) ==
    IF p = 0 \/ proposals[p].buyer_id # user THEN Forbidden
    ELSE IF IndexOfId(farmers, proposals[p].supply_id) = 0
    THEN NotFound
    ELSE OK

pay_fee(pid, user) ==
    LET p == IndexOfId(proposals, pid)
        st == pay_fee_status(p, user)
    IN  /\ last' = Result("pay_fee", pid, st)
        /\ IF st = OK
           THEN LET prop == proposals[p]
                    s == IndexOfId(farmers, prop.supply_id)
                IN  /\ farmers' = [farmers EXCEPT ![s].status = "SOLD"]
                    /\ proposals' = [proposals EXCEPT ![p].status = "PAID"]
                    /\ notifications' =
                           save_notification(notifications, farmers[s].owner_id,
                                             "Deal Closed", prop.id)
                    /\ Len(notifications') <= MaxNotifs
           ELSE UNCHANGED <<farmers, proposals, notifications>>
        /\ UNCHANGED <<threads, started, users, buyers, weights, transactions, uuid>>

(* -------------------- POST /api/listings/{id}/weights ------------------- *)
\* add_weight_entry_status refusing only an OPEN listing
add_weight_entry_status_openOnly(l, user) ==
    IF l = 0 THEN NotFound
    ELSE IF Get(farmers[l], "owner_id", None) # user THEN Forbidden
    ELSE IF Get(farmers[l], "status", None) = "OPEN" THEN InvalidState
    ELSE OK

\* The checks of add_weight_entry, in the order of the code.
add_weight_entry_status(l, user) ==
    IF l = 0 THEN NotFound
    ELSE IF Get(farmers[l], "owner_id", None) # user THEN Forbidden
    ELSE IF Get(farmers[l], "status", None) \notin {"SOLD", "AWAITING_PAYMENT"}
    THEN InvalidState
    ELSE OK

\* add_weight_entry_proceeds with only the unknown listing stopping the handler
add_weight_entry_proceeds_unknownOnly(st) == st # NotFound

\* every failed check raises before the entry is built and saved
add_weight_entry_proceeds(st) == st = OK

\* weighing_complete with > for >=
weighing_complete_strict(total_quantity, listing) ==
    total_quantity > Get(listing, "quantity", 0)

\* if total_quantity >= listing.get('quantity', 0)
weighing_complete(total_quantity, listing) ==
    total_quantity >= Get(listing, "quantity", 0)

add_weight_entry(listing_id, quantity, total_weight, user) ==
    LET l == IndexOfId(farmers, listing_id)
        st == add_weight_entry_status(l, user)
        weight_data == [listing_id |-> listing_id, quantity |-> quantity,
                        total_weight |-> total_weight]
        saved == Append(weights, weight_data)
        total_quantity == SumOver(ListingWeights(saved, listing_id), "quantity")
    IN  /\ IF add_weight_entry_proceeds(st)
           THEN /\ weights' = saved
                /\ notifications' =
                       IF weighing_complete(total_quantity, farmers[l])
                       THEN save_notification(notifications, user,
                                              "Weighing completed", listing_id)
                       ELSE notifications
                /\ Len(notifications') <= MaxNotifs
                /\ last' = Update(Result("add_weight_entry", listing_id, st),
                                [total_weighed |-> total_quantity,
                                 remaining |-> Get(farmers[l], "quantity", 0)
                                               - total_quantity])
           ELSE /\ last' = Result("add_weight_entry", listing_id, st)
                /\ UNCHANGED <<weights, notifications>>
        /\ UNCHANGED <<threads, started, users, farmers, buyers, proposals, transactions, uuid>>

(* ---------------- POST /api/listings/{id}/internal-weight --------------- *)
\* if not listing or listing.get('owner_id') != user: raise 403
owner_only_status(l, user) ==
    IF l = 0 \/ Get(farmers[l], "owner_id", None) # user THEN Forbidden
    ELSE OK

record_internal_weight(listing_id, estimated_weight, user) ==
    LET l == IndexOfId(farmers, listing_id)
        st == owner_only_status(l, user)
    IN  /\ last' = Result("record_internal_weight", listing_id, st)
        /\ IF st = OK
           THEN farmers' =
                    [farmers EXCEPT ![l] =
                        Update(@, [internal_estimated_weight |-> estimated_weight,
                                   internal_weight_recorded_at |-> "now"])]
           ELSE UNCHANGED farmers
        /\ UNCHANGED <<threads, started, users, buyers, proposals, weights, transactions,
                       notifications, uuid>>

(* ---------------- POST /api/listings/{id}/request-advance --------------- *)
request_advance_payment(listing_id, pauta_value, user) ==
    LET l == IndexOfId(farmers, listing_id)
        st == owner_only_status(l, user)
    IN  /\ last' = Result("request_advance_payment", listing_id, st)
        /\ IF st = OK
           THEN /\ farmers' =
                       [farmers EXCEPT ![l] =
                           Update(@, [pauta_value_requested |-> pauta_value,
                                      advance_payment_status |-> "pending"])]
                /\ notifications' =
                       IF Get(farmers[l], "buyer_id", None) # None
                       THEN save_notification(notifications, farmers[l].buyer_id,
                                "Advance payment requested", listing_id)
                       ELSE notifications
                /\ Len(notifications') <= MaxNotifs
           ELSE UNCHANGED <<farmers, notifications>>
        /\ UNCHANGED <<threads, started, users, buyers, proposals, weights, transactions, uuid>>

(* -------------------- POST /api/listings/{id}/finalize ------------------ *)
YieldMin == 48
YieldMax == 55
ArrobaMass == 15

\* yield_rate_valid with the ends of the range left out (gt, lt)
yield_rate_valid_openRange(yield_rate) == YieldMin < yield_rate /\ yield_rate < YieldMax

\* FinalPayment.yield_rate: Field(ge=0.48, le=0.55)
yield_rate_valid(yield_rate) == YieldMin <= yield_rate /\ yield_rate <= YieldMax

\* PaidProposal taking an ACCEPTED proposal as well
PaidProposal_orAccepted(listing_id) ==
    FirstIndex({i \in 1..Len(proposals) :
                   /\ proposals[i].supply_id = listing_id
                   /\ proposals[i].status \in {"PAID", "ACCEPTED"}})

\* proposal of the listing with status PAID (0 when there is none)
PaidProposal(listing_id) ==
    FirstIndex({i \in 1..Len(proposals) :
                   /\ proposals[i].supply_id = listing_id
                   /\ proposals[i].status = "PAID"})

\* finalize_status with the comparison of the owner and the caller left out
finalize_status_noOwnerCheck(l, listing_id, yield_rate, user) ==
    IF ~yield_rate_valid(yield_rate) THEN Unprocessable
    ELSE IF l = 0 THEN Forbidden
    ELSE IF PaidProposal(listing_id) = 0 THEN InvalidState
    ELSE OK

\* The checks of finalize_transaction, in the order of the code; the request
\* body is validated before the handler runs.
finalize_status(l, listing_id, yield_rate, user) ==
    IF ~yield_rate_valid(yield_rate) THEN Unprocessable
    ELSE IF l = 0 \/ Get(farmers[l], "owner_id", None) # user THEN Forbidden
    ELSE IF PaidProposal(listing_id) = 0 THEN InvalidState
    ELSE OK

\* LiveSettlement with the fees not taken off the final amount
LiveSettlement_feesKept(total_weight, yield_rate, price_offer, transport_fee, funrural_tax) ==
    [total_weight |-> total_weight,
     at_quantity |-> RoundDiv(total_weight * 100, ArrobaMass),
     yield_rate |-> yield_rate,
     price_per_unit |-> price_offer,
     gross_amount |-> RoundDiv(total_weight * yield_rate * price_offer, ArrobaMass),
     final_amount |-> RoundDiv(total_weight * yield_rate * price_offer, ArrobaMass),
     status |-> "completed"]

\* The settlement of the live-weight branch.
LiveSettlement(total_weight, yield_rate, price_offer, transport_fee, funrural_tax) ==
    [total_weight |-> total_weight,
     at_quantity |-> RoundDiv(total_weight * 100, ArrobaMass),
     yield_rate |-> yield_rate,
     price_per_unit |-> price_offer,
     gross_amount |-> RoundDiv(total_weight * yield_rate * price_offer, ArrobaMass),
     final_amount |->
         RoundDiv(total_weight * yield_rate * price_offer
                  - (transport_fee + funrural_tax) * 100 * ArrobaMass, ArrobaMass),
     status |-> "completed"]

\* finalized_listing with the status left as it was
finalized_listing_statusKept(listing, transaction_id) ==
    Update(listing, [transaction_id |-> transaction_id])

\* the listing as finalize leaves it
finalized_listing(listing, transaction_id) ==
    Update(listing, [status |-> "COMPLETED", transaction_id |-> transaction_id])

finalize_transaction(listing_id, yield_rate, transport_fee, funrural_tax, user) ==
    LET l == IndexOfId(farmers, listing_id)
        st == finalize_status(l, listing_id, yield_rate, user)
    IN  /\ last' = Result("finalize_transaction", listing_id, st)
        /\ IF st = OK
           THEN LET proposal == proposals[PaidProposal(listing_id)]
                    listing_weights == ListingWeights(weights, listing_id)
                    base == [id |-> uuid + 1, listing_id |-> listing_id,
                             proposal_id |-> proposal.id,
                             transport_fee |-> transport_fee,
                             funrural_tax |-> funrural_tax]
                    transaction ==
                        IF listing_weights # << >>
                        THEN Update(base,
                                 LiveSettlement(
                                     SumOver(listing_weights, "total_weight"),
                                     yield_rate, proposal.price_offer,
                                     transport_fee, funrural_tax))
                        ELSE Update(base,
                                 [status |-> "awaiting_slaughterhouse_weight"])
                    buyer == Get(farmers[l], "buyer_id", None)
                IN  /\ transactions' = Append(transactions, transaction)
                    /\ Len(transactions') <= MaxTransactions
                    /\ uuid' = uuid + 1
                    /\ farmers' =
                           [farmers EXCEPT
                               ![l] = finalized_listing(@, transaction.id)]
                    /\ notifications' =
                           save_notification(
                               save_notification(notifications, buyer,
                                   "Transaction completed", transaction.id),
                               buyer, "Deposit refunded", transaction.id)
                    /\ Len(notifications') <= MaxNotifs
           ELSE UNCHANGED <<farmers, transactions, notifications, uuid>>
        /\ UNCHANGED <<threads, started, users, buyers, proposals, weights>>

(* ------------- POST /api/transactions/{id}/slaughterhouse-weight -------- *)
\* SlaughterSettlement with the yield rate left out of the amount
SlaughterSettlement_noYield(final_weight, yield_rate, price_per_unit) ==
    [slaughterhouse_weight |-> final_weight,
     at_quantity |-> RoundDiv(final_weight * 100, ArrobaMass),
     yield_rate |-> yield_rate,
     price_per_unit |-> price_per_unit,
     final_amount |-> RoundDiv(final_weight * 100 * price_per_unit, ArrobaMass),
     status |-> "completed",
     completed_at |-> "now"]

\* The settlement of the slaughterhouse submission: no fee is taken off.
SlaughterSettlement(final_weight, yield_rate, price_per_unit) ==
    [slaughterhouse_weight |-> final_weight,
     at_quantity |-> RoundDiv(final_weight * 100, ArrobaMass),
     yield_rate |-> yield_rate,
     price_per_unit |-> price_per_unit,
     final_amount |->
         RoundDiv(final_weight * yield_rate * price_per_unit, ArrobaMass),
     status |-> "completed",
     completed_at |-> "now"]

\* The handler does not read the acting user, who is no parameter here.
submit_slaughterhouse_weight(transaction_id, final_weight, yield_rate, price_per_unit) ==
    LET t == IndexOfId(transactions, transaction_id)
    IN  IF t = 0
        THEN /\ last' = Result("submit_slaughterhouse_weight", transaction_id,
                            NotFound)
             /\ UNCHANGED <<threads, started, users, farmers, buyers, proposals, weights,
                            transactions, notifications, uuid>>
        ELSE LET l == IndexOfId(farmers, transactions[t].listing_id)
             IN  /\ last' = Result("submit_slaughterhouse_weight", transaction_id,
                           OK)
                 /\ transactions' =
                        [transactions EXCEPT ![t] =
                            Update(@, SlaughterSettlement(final_weight,
                                          yield_rate, price_per_unit))]
                 /\ notifications' =
                        IF l # 0
                        THEN save_notification(notifications,
                                 farmers[l].owner_id, "Final weighing completed",
                                 transaction_id)
                        ELSE notifications
                 /\ Len(notifications') <= MaxNotifs
                 /\ UNCHANGED <<threads, started, users, farmers, buyers, proposals, weights, uuid>>

(* --------------------- handlers run step by step ----------------------- *)
\* save_json keeping the records of the file that the written list lacks
save_json_merge(file, data) ==
    data \o SelectSeq(file, LAMBDA x : \A i \in 1..Len(data) : data[i] # x)

\* save_json: the file becomes the list that is written
save_json(file, data) == data

\* the order of the steps with the proposal file saved before the listing file
pc_after_proposalsFirst(op, pc) ==
    CASE pc = "append_load" -> "append_save"
      [] pc = "append_save" -> "notify_load"
      [] pc = "load_farmers" -> "save_proposals"
      [] pc = "save_proposals" -> "save_farmers"
      [] pc = "save_farmers" -> "notify_load"
      [] pc = "notify_load" -> "notify_save"
      [] pc = "notify_save" -> "done"

\* the step that follows a step, in the order of the handler's code
pc_after(op, pc) ==
    CASE pc = "append_load" -> "append_save"
      [] pc = "append_save" -> "notify_load"
      [] pc = "load_farmers" -> "save_farmers"
      [] pc = "save_farmers" ->
             IF op = "pay_fee" THEN "save_proposals" ELSE "notify_load"
      [] pc = "save_proposals" ->
             IF op = "pay_fee" THEN "notify_load" ELSE "done"
      [] pc = "notify_load" -> "notify_save"
      [] pc = "notify_save" ->
             IF op = "handle_proposal" THEN "save_proposals" ELSE "done"

\* the request answers: the slot is done and `last` records the response
Respond(t, request, st) ==
    /\ threads' = [threads EXCEPT ![t] = Update(request,
                                              [pc |-> "done", status |-> st])]
    /\ last' = Result(request.op, request.id, st)

\* the request of slot t goes on to its next step, with upd in its memory;
\* after its last step it answers OK
Advance(t, upd) ==
    LET th == Update(threads[t], upd)
        pc == pc_after(th.op, th.pc)
    IN  IF pc = "done"
        THEN Respond(t, th, OK)
        ELSE /\ threads' = [threads EXCEPT ![t] = Update(th, [pc |-> pc])]
             /\ UNCHANGED last

\* create_proposal up to new_prop: the listing and the role are read and
\* checked, the record is built
start_create_proposal(t, supply_id, price_offer, user) ==
    LET s == IndexOfId(farmers, supply_id)
        st == create_proposal_status(s, user)
        request == Update(IdleThread, [op |-> "create_proposal",
                                       id |-> supply_id, user |-> user])
        new_prop == [id |-> uuid + 1, supply_id |-> supply_id,
                     buyer_id |-> user, price_offer |-> price_offer,
                     status |-> "PENDING"]
    IN  /\ Free(t)
        /\ started' = started + 1
        /\ IF st = OK
           THEN /\ threads' =
                       [threads EXCEPT ![t] =
                           Update(request, [pc |-> "append_load",
                                            rec |-> new_prop,
                                            notify |-> farmers[s].owner_id])]
                /\ uuid' = uuid + 1
                /\ UNCHANGED last
           ELSE /\ Respond(t, request, st)
                /\ UNCHANGED uuid
        /\ UNCHANGED <<users, farmers, buyers, proposals, weights,
                       transactions, notifications>>

\* append_record: data = load_json(filepath)
append_load(t) ==
    /\ threads[t].pc = "append_load"
    /\ Advance(t, [P |-> proposals])
    /\ UNCHANGED <<started, users, farmers, buyers, proposals, weights,
                   transactions, notifications, uuid>>

\* append_record: data.append(record); save_json(filepath, data)
append_save(t) ==
    /\ threads[t].pc = "append_save"
    /\ proposals' = save_json(proposals, Append(threads[t].P, threads[t].rec))
    /\ Len(proposals') <= MaxProposals
    /\ Advance(t, [saved_proposals |-> TRUE])
    /\ UNCHANGED <<started, users, farmers, buyers, weights, transactions,
                   notifications, uuid>>

\* the notification a request sends
Notice(th) ==
    [user_id |-> th.notify,
     message |-> CASE th.op = "create_proposal" -> "New Offer"
                   [] th.op = "handle_proposal" -> "Offer Accepted"
                   [] th.op = "pay_fee" -> "Deal Closed",
     about |-> IF th.op = "create_proposal" THEN th.rec.id ELSE th.id]

\* save_notification, append_record: data = load_json(DB_NOTIFS)
notify_load(t) ==
    /\ threads[t].pc = "notify_load"
    /\ Advance(t, [N |-> notifications])
    /\ UNCHANGED <<started, users, farmers, buyers, proposals, weights,
                   transactions, notifications, uuid>>

\* save_notification, append_record: save_json(DB_NOTIFS, data)
notify_save(t) ==
    /\ threads[t].pc = "notify_save"
    /\ notifications' =
           save_json(notifications, Append(threads[t].N, Notice(threads[t])))
    /\ Len(notifications') <= MaxNotifs
    /\ Advance(t, [N |-> << >>])
    /\ UNCHANGED <<started, users, farmers, buyers, proposals, weights,
                   transactions, uuid>>

\* handle_proposal up to its branch on the action: the proposals are loaded,
\* the proposal is looked up and its status set in memory
start_handle_proposal(t, pid, action) ==
    LET p == IndexOfId(proposals, pid)
        request == Update(IdleThread, [op |-> "handle_proposal", id |-> pid,
                                       action |-> action])
    IN  /\ Free(t)
        /\ started' = started + 1
        /\ IF p = 0
           THEN Respond(t, request, NotFound)
           ELSE /\ threads' =
                       [threads EXCEPT ![t] =
                           Update(request,
                               [pc |-> IF action = "accept"
                                       THEN "load_farmers"
                                       ELSE "save_proposals",
                                before |-> proposals[p].status,
                                P |-> [proposals EXCEPT ![p].status =
                                          proposal_status_after(action, @)]])]
                /\ UNCHANGED last
        /\ UNCHANGED <<users, farmers, buyers, proposals, weights,
                       transactions, notifications, uuid>>

\* pay_fee up to its first check: the proposals are loaded, the proposal is
\* looked up and its buyer compared with the caller
start_pay_fee(t, pid, user) ==
    LET p == IndexOfId(proposals, pid)
        request == Update(IdleThread, [op |-> "pay_fee", id |-> pid,
                                       user |-> user])
    IN  /\ Free(t)
        /\ started' = started + 1
        /\ IF p = 0 \/ proposals[p].buyer_id # user
           THEN Respond(t, request, Forbidden)
           ELSE /\ threads' =
                       [threads EXCEPT ![t] =
                           Update(request, [pc |-> "load_farmers",
                                            before |-> proposals[p].status,
                                            P |-> proposals])]
                /\ UNCHANGED last
        /\ UNCHANGED <<users, farmers, buyers, proposals, weights,
                       transactions, notifications, uuid>>

\* farmers = load_json(DB_FARMERS) and the lookup of the proposal's listing,
\* in handle_proposal (accept) and in pay_fee, with the changes each makes in
\* memory when the listing is found
load_farmers(t) ==
    LET th == threads[t]
        p == IndexOfId(th.P, th.id)
        prop == th.P[p]
        s == IndexOfId(farmers, prop.supply_id)
    IN  /\ th.pc = "load_farmers"
        /\ IF th.op = "handle_proposal"
           THEN IF s # 0
                THEN Advance(t, [F |-> [farmers EXCEPT
                                           ![s] = accepted_listing(@, prop)],
                                 notify |-> prop.buyer_id])
                ELSE /\ threads' = [threads EXCEPT ![t].pc = "save_proposals"]
                     /\ UNCHANGED last
           ELSE IF s # 0
                THEN Advance(t, [F |-> [farmers EXCEPT ![s].status = "SOLD"],
                                 P |-> [th.P EXCEPT ![p].status = "PAID"],
                                 notify |-> farmers[s].owner_id])
                ELSE Respond(t, th, NotFound)
        /\ UNCHANGED <<started, users, farmers, buyers, proposals, weights,
                       transactions, notifications, uuid>>

\* save_json(DB_FARMERS, farmers)
save_farmers(t) ==
    /\ threads[t].pc = "save_farmers"
    /\ farmers' = save_json(farmers, threads[t].F)
    /\ Advance(t, [saved_farmers |-> TRUE])
    /\ UNCHANGED <<started, users, buyers, proposals, weights, transactions,
                   notifications, uuid>>

\* save_json(DB_PROPOSALS, proposals)
save_proposals(t) ==
    /\ threads[t].pc = "save_proposals"
    /\ proposals' = save_json(proposals, threads[t].P)
    /\ Advance(t, [saved_proposals |-> TRUE])
    /\ UNCHANGED <<started, users, farmers, buyers, weights, transactions,
                   notifications, uuid>>

\* an exception between two steps of a request (a write that fails, a
\* worker that is stopped): the middleware answers 500 and nothing the
\* request has written is taken back
fail(t) ==
    /\ threads[t].pc \notin {"idle", "done", "failed"}
    /\ threads' = [threads EXCEPT ![t] =
                       Update(@, [pc |-> "failed", status |-> ServerError])]
    /\ last' = Result(threads[t].op, threads[t].id, ServerError)
    /\ UNCHANGED <<started, users, farmers, buyers, proposals, weights,
                   transactions, notifications, uuid>>

(* ------------------------------ behaviours ----------------------------- *)
Next ==
    \/ \E user \in Farmers, race \in Races, quantity \in Quantities :
           Len(farmers) < MaxListings /\ create_farmer(user, race, quantity)
    \/ \E supply_id \in IdInputs(farmers), price_offer \in Prices, user \in Users :
           create_proposal(supply_id, price_offer, user)
    \/ \E pid \in IdInputs(proposals), action \in Actions :
           handle_proposal(pid, action)
    \/ \E pid \in IdInputs(proposals), user \in Users :
           pay_fee(pid, user)
    \/ \E listing_id \in IdInputs(farmers), quantity \in BatchQuantities,
          total_weight \in BatchWeights, user \in Users :
           /\ add_weight_entry(listing_id, quantity, total_weight, user)
           /\ Len(weights') <= MaxWeights
    \/ \E listing_id \in IdInputs(farmers), yield_rate \in YieldRates,
          transport_fee \in TransportFees, funrural_tax \in FunruralTaxes,
          user \in Users :
           finalize_transaction(listing_id, yield_rate, transport_fee,
                                funrural_tax, user)
    \/ \E transaction_id \in IdInputs(transactions),
          final_weight \in FinalWeights, yield_rate \in YieldRates,
          price_per_unit \in Prices :
           submit_slaughterhouse_weight(transaction_id, final_weight,
                                        yield_rate, price_per_unit)

Spec == Init /\ [][Next]_vars

\* Weighing and settlement of one listing: up to MaxBatches weight entries,
\* yield rates on both sides of the accepted range and on its ends, prices
\* that make the amounts need rounding.
SettleNext ==
    \/ \E user \in Farmers, race \in Races, quantity \in Quantities :
           Len(farmers) < MaxListings /\ create_farmer(user, race, quantity)
    \/ \E supply_id \in Ids(farmers), price_offer \in SettlePrices,
          user \in SettleBuyers :
           Len(proposals) < MaxOffers /\ create_proposal(supply_id, price_offer, user)
    \/ \E pid \in Ids(proposals) :
           handle_proposal(pid, "accept")
    \/ \E pid \in Ids(proposals), user \in SettleBuyers :
           pay_fee(pid, user)
    \/ \E listing_id \in IdInputs(farmers), quantity \in BatchQuantities,
          total_weight \in SettleMasses, user \in SettleUsers :
           /\ add_weight_entry(listing_id, quantity, total_weight, user)
           /\ Len(weights') <= MaxBatches
    \/ \E listing_id \in IdInputs(farmers), yield_rate \in SettleYields,
          transport_fee \in TransportFees, funrural_tax \in FunruralTaxes,
          user \in SettleUsers :
           finalize_transaction(listing_id, yield_rate, transport_fee,
                                funrural_tax, user)
    \/ \E transaction_id \in IdInputs(transactions),
          final_weight \in SettleFinalWeights, yield_rate \in YieldRates,
          price_per_unit \in Prices :
           submit_slaughterhouse_weight(transaction_id, final_weight,
                                        yield_rate, price_per_unit)

SpecSettle == Init /\ [][SettleNext]_vars

\* Matching of listings and demands: two breeds, two users, and a proposal
\* whose acceptance takes a listing out of OPEN.
MarketNext ==
    \/ \E user \in MarketUsers, race \in MarketRaces, quantity \in Quantities :
           Len(farmers) < MaxSupply /\ create_farmer(user, race, quantity)
    \/ \E user \in MarketUsers, race \in MarketRaces :
           Len(buyers) < MaxDemand /\ create_buyer(user, race)
    \/ \E supply_id \in Ids(farmers), price_offer \in Prices,
          user \in MarketUsers :
           Len(proposals) < MaxOffers /\ create_proposal(supply_id, price_offer, user)
    \/ \E pid \in Ids(proposals) :
           handle_proposal(pid, "accept")

SpecMarket == Init /\ [][MarketNext]_vars

\* Proposals on one listing: submission by every user, every action of
\* handle_proposal, and the deposit.
OfferNext ==
    \/ \E user \in Farmers, race \in Races, quantity \in Quantities :
           Len(farmers) < MaxListings /\ create_farmer(user, race, quantity)
    \/ \E supply_id \in IdInputs(farmers), price_offer \in Prices, user \in Users :
           create_proposal(supply_id, price_offer, user)
    \/ \E pid \in IdInputs(proposals), action \in Actions :
           handle_proposal(pid, action)
    \/ \E pid \in IdInputs(proposals), user \in Users :
           pay_fee(pid, user)

SpecOffer == Init /\ [][OfferNext]_vars

\* Closing of one listing, with every user making every request on it: the
\* offer, its acceptance and deposit, a weight entry, the owner's internal
\* weight and advance request, finalize and the slaughterhouse submission.
CloseNext ==
    \/ \E user \in Farmers, race \in Races, quantity \in Quantities :
           Len(farmers) < MaxListings /\ create_farmer(user, race, quantity)
    \/ \E supply_id \in Ids(farmers), price_offer \in Prices, user \in Users :
           Len(proposals) < MaxOffers /\ create_proposal(supply_id, price_offer, user)
    \/ \E pid \in Ids(proposals), action \in Actions :
           handle_proposal(pid, action)
    \/ \E pid \in Ids(proposals), user \in Users :
           pay_fee(pid, user)
    \/ \E listing_id \in Ids(farmers), quantity \in Quantities,
          total_weight \in BatchWeights, user \in Users :
           /\ add_weight_entry(listing_id, quantity, total_weight, user)
           /\ Len(weights') <= MaxWeights
    \/ \E listing_id \in IdInputs(farmers),
          estimated_weight \in EstimatedWeights, user \in Users :
           record_internal_weight(listing_id, estimated_weight, user)
    \/ \E listing_id \in IdInputs(farmers), pauta_value \in PautaValues,
          user \in Users :
           request_advance_payment(listing_id, pauta_value, user)
    \/ \E listing_id \in IdInputs(farmers), yield_rate \in YieldRates,
          transport_fee \in TransportFees, funrural_tax \in FunruralTaxes,
          user \in Users :
           finalize_transaction(listing_id, yield_rate, transport_fee,
                                funrural_tax, user)
    \/ \E transaction_id \in Ids(transactions),
          final_weight \in FinalWeights, yield_rate \in YieldRates,
          price_per_unit \in Prices :
           submit_slaughterhouse_weight(transaction_id, final_weight,
                                        yield_rate, price_per_unit)

SpecClose == Init /\ [][CloseNext]_vars

\* Two requests at a time, each run one load or save at a time, and no
\* exception: submissions, accepts, rejects and deposits on one listing.
RaceNext ==
    \/ \E user \in Farmers, race \in Races, quantity \in Quantities :
           Len(farmers) < MaxListings /\ create_farmer(user, race, quantity)
    \/ \E t \in Slots, supply_id \in Ids(farmers), price_offer \in Prices,
          user \in RaceUsers :
           started < MaxRequests
           /\ start_create_proposal(t, supply_id, price_offer, user)
    \/ \E t \in Slots, pid \in Ids(proposals), action \in RaceActions :
           started < MaxRequests /\ start_handle_proposal(t, pid, action)
    \/ \E t \in Slots, pid \in Ids(proposals), user \in RaceUsers :
           started < MaxRequests /\ start_pay_fee(t, pid, user)
    \/ \E t \in Slots : append_load(t)
    \/ \E t \in Slots : append_save(t)
    \/ \E t \in Slots : load_farmers(t)
    \/ \E t \in Slots : save_farmers(t)
    \/ \E t \in Slots : save_proposals(t)
    \/ \E t \in Slots : notify_load(t)
    \/ \E t \in Slots : notify_save(t)

SpecRace == Init /\ [][RaceNext]_vars

\* One request at a time, run one load or save at a time, which an exception
\* can end between any two of its steps.
CrashSlots == {1}

CrashNext ==
    \/ \E user \in Farmers, race \in Races, quantity \in Quantities :
           Len(farmers) < MaxListings /\ create_farmer(user, race, quantity)
    \/ \E t \in CrashSlots, supply_id \in Ids(farmers), price_offer \in Prices,
          user \in RaceUsers :
           started < MaxRequests
           /\ start_create_proposal(t, supply_id, price_offer, user)
    \/ \E t \in CrashSlots, pid \in Ids(proposals), action \in RaceActions :
           started < MaxRequests /\ start_handle_proposal(t, pid, action)
    \/ \E t \in CrashSlots, pid \in Ids(proposals), user \in RaceUsers :
           started < MaxRequests /\ start_pay_fee(t, pid, user)
    \/ \E t \in CrashSlots : append_load(t)
    \/ \E t \in CrashSlots : append_save(t)
    \/ \E t \in CrashSlots : load_farmers(t)
    \/ \E t \in CrashSlots : save_farmers(t)
    \/ \E t \in CrashSlots : save_proposals(t)
    \/ \E t \in CrashSlots : notify_load(t)
    \/ \E t \in CrashSlots : notify_save(t)
    \/ \E t \in CrashSlots : fail(t)

SpecCrash == Init /\ [][CrashNext]_vars

\* The notification file is a sink: the handlers append to it and none of
\* them reads what it holds.  In a behaviour that never ends the file grows
\* without bound; emptying it keeps the states finite and changes nothing a
\* handler reads or answers.
forget_notifications ==
    /\ notifications # << >>
    /\ notifications' = << >>
    /\ UNCHANGED <<threads, started, users, farmers, buyers, proposals,
                   weights, transactions, uuid, last>>

\* yield rates finalize accepts
ValidYields == {y \in YieldRates : yield_rate_valid(y)}

\* ids uuid4 can have given to the listings and the proposals
LiveIds == 1..(MaxListings + MaxOffers)

\* pay deposit on a proposal by the buyer who made it
pay_by_buyer(pid) ==
    /\ notifications = << >>
    /\ pid \in Ids(proposals)
    /\ pay_fee(pid, proposals[IndexOfId(proposals, pid)].buyer_id)

\* finalize of a listing by its owner, with a yield rate in the range
finalize_by_owner(listing_id) ==
    /\ notifications = << >>
    /\ listing_id \in Ids(farmers)
    /\ \E yield_rate \in ValidYields, transport_fee \in TransportFees,
          funrural_tax \in FunruralTaxes :
           finalize_transaction(listing_id, yield_rate, transport_fee,
               funrural_tax, farmers[IndexOfId(farmers, listing_id)].owner_id)

\* One request at a time, without end: every user makes every request of the
\* proposal and settlement lifecycle on one listing.  The notifications of a
\* request are dropped before the next request.
LiveNext ==
    \/ \E user \in Farmers, race \in Races, quantity \in Quantities :
           /\ notifications = << >> /\ Len(farmers) < MaxListings
           /\ create_farmer(user, race, quantity)
    \/ \E supply_id \in Ids(farmers), price_offer \in Prices, user \in Users :
           /\ notifications = << >> /\ Len(proposals) < MaxOffers
           /\ create_proposal(supply_id, price_offer, user)
    \/ \E pid \in Ids(proposals), action \in Actions :
           notifications = << >> /\ handle_proposal(pid, action)
    \/ \E pid \in Ids(proposals), user \in Users :
           notifications = << >> /\ pay_fee(pid, user)
    \/ \E listing_id \in Ids(farmers), quantity \in Quantities,
          total_weight \in BatchWeights, user \in Users :
           /\ notifications = << >>
           /\ add_weight_entry(listing_id, quantity, total_weight, user)
           /\ Len(weights') <= MaxWeights
    \/ \E listing_id \in Ids(farmers),
          estimated_weight \in EstimatedWeights, user \in Users :
           /\ notifications = << >>
           /\ record_internal_weight(listing_id, estimated_weight, user)
    \/ \E listing_id \in Ids(farmers), pauta_value \in PautaValues,
          user \in Users :
           /\ notifications = << >>
           /\ request_advance_payment(listing_id, pauta_value, user)
    \/ \E listing_id \in Ids(farmers), yield_rate \in YieldRates,
          transport_fee \in TransportFees, funrural_tax \in FunruralTaxes,
          user \in Users :
           /\ notifications = << >>
           /\ finalize_transaction(listing_id, yield_rate, transport_fee,
                                   funrural_tax, user)
    \/ forget_notifications

\* The buyer of a proposal keeps paying its deposit and the owner of a
\* listing keeps finalizing it: a request that can be made again and again
\* is made again and again.  The handlers of the program can always be
\* called, so on the program this is weak fairness; here a request waits
\* for the notifications of the one before it to be dropped, and strong
\* fairness makes it come back after that.
LiveFairness ==
    /\ \A pid \in LiveIds : SF_vars(pay_by_buyer(pid))
    /\ \A listing_id \in LiveIds : SF_vars(finalize_by_owner(listing_id))
    /\ WF_vars(forget_notifications)

SpecLive == Init /\ [][LiveNext]_vars /\ LiveFairness

(* ------------------------------- claims -------------------------------- *)
\* position of a listing status in the lifecycle
\* OPEN < AWAITING_PAYMENT < SOLD < COMPLETED
Rank(status) ==
    CASE status = "OPEN" -> 0
      [] status = "AWAITING_PAYMENT" -> 1
      [] status = "SOLD" -> 2
      [] status = "COMPLETED" -> 3

\* the record of a collection with this id
ById(seq, id) == seq[IndexOfId(seq, id)]

\* C1: no step changes a listing's status to a value earlier than its current
\* one in the order OPEN < AWAITING_PAYMENT < SOLD < COMPLETED.
C1_StatusOnlyForward ==
    [][\A id \in Ids(farmers) :
           id \in Ids(farmers') =>
               Rank(ById(farmers', id).status) >= Rank(ById(farmers, id).status)]_vars

\* proposals of a listing that are ACCEPTED or PAID
Engaged(listing_id) ==
    {i \in 1..Len(proposals) :
        /\ proposals[i].supply_id = listing_id
        /\ proposals[i].status \in {"ACCEPTED", "PAID"}}

\* C2: in every reachable state, every listing has at most one proposal with
\* status ACCEPTED or PAID.
C2_OneEngagedProposal ==
    \A id \in Ids(farmers) : Cardinality(Engaged(id)) <= 1

\* C3: a proposal submitted against an existing listing whose status is not
\* OPEN is refused with InvalidState; no proposal and no notification is
\* appended.
C3_ClosedListingRefused ==
    [][\A supply_id \in Ids(farmers), price_offer \in Prices, user \in Users :
           (/\ ById(farmers, supply_id).status # "OPEN"
            /\ create_proposal(supply_id, price_offer, user))
           => /\ last'.status = InvalidState
              /\ proposals' = proposals
              /\ notifications' = notifications]_vars

\* C3 happens: a submission against an existing listing that had left OPEN
\* was refused with InvalidState.
C3_Witness ==
    /\ last.op = "create_proposal"
    /\ last.status = InvalidState
    /\ last.id \in Ids(farmers)
    /\ ById(farmers, last.id).status \in {"AWAITING_PAYMENT", "SOLD", "COMPLETED"}
    /\ proposals # << >>

\* C4: a proposal's status becomes PAID only in a pay-deposit step, and only
\* from ACCEPTED.
C4_PaidOnlyFromAccepted ==
    [][\A id \in Ids(proposals) :
           (/\ ById(proposals, id).status # "PAID"
            /\ ById(proposals', id).status = "PAID")
           => /\ last'.op = "pay_fee"
              /\ ById(proposals, id).status = "ACCEPTED"]_vars

\* C5: pay deposit on an existing proposal by a caller who is not the
\* proposal's buyer is refused with Forbidden; listings, proposals and
\* notifications stay as they are.
C5_OtherPayerForbidden ==
    [][\A pid \in Ids(proposals), user \in Users :
           (/\ ById(proposals, pid).buyer_id # user
            /\ pay_fee(pid, user))
           => /\ last'.status = Forbidden
              /\ farmers' = farmers
              /\ proposals' = proposals
              /\ notifications' = notifications]_vars

\* C5 happens: a pay deposit on an existing, ACCEPTED proposal was refused
\* with Forbidden.
C5_Witness ==
    /\ last.op = "pay_fee"
    /\ last.status = Forbidden
    /\ last.id \in Ids(proposals)
    /\ ById(proposals, last.id).status = "ACCEPTED"

\* the listing has a proposal with status PAID
HasPaid(listing_id) ==
    \E i \in 1..Len(proposals) :
        proposals[i].supply_id = listing_id /\ proposals[i].status = "PAID"

\* C6: finalize called by the listing's owner on a listing that has no PAID
\* proposal is refused with InvalidState; no transaction is created and the
\* listing keeps its status.  (The handler is called with a request body
\* that passed validation.)
C6_FinalizeNeedsPaid ==
    [][\A listing_id \in Ids(farmers), yield_rate \in YieldRates,
          transport_fee \in TransportFees, funrural_tax \in FunruralTaxes,
          user \in Users :
           (/\ yield_rate_valid(yield_rate)
            /\ ById(farmers, listing_id).owner_id = user
            /\ ~HasPaid(listing_id)
            /\ finalize_transaction(listing_id, yield_rate, transport_fee,
                                    funrural_tax, user))
           => /\ last'.status = InvalidState
              /\ transactions' = transactions
              /\ ById(farmers', listing_id).status
                     = ById(farmers, listing_id).status]_vars

\* C6 happens: finalize on a listing awaiting payment, whose proposal is
\* ACCEPTED and not PAID, was refused with InvalidState.
C6_Witness ==
    /\ last.op = "finalize_transaction"
    /\ last.status = InvalidState
    /\ last.id \in Ids(farmers)
    /\ ById(farmers, last.id).status = "AWAITING_PAYMENT"
    /\ ~HasPaid(last.id)
    /\ Engaged(last.id) # {}

\* C7: in every reachable state, no two transactions reference the same
\* listing.
C7_OneTransactionPerListing ==
    \A i, j \in 1..Len(transactions) :
        transactions[i].listing_id = transactions[j].listing_id => i = j

\* C8: once a transaction's status is completed, no step changes any of its
\* fields.
C8_CompletedImmutable ==
    [][\A id \in Ids(transactions) :
           ById(transactions, id).status = "completed"
           => ById(transactions', id) = ById(transactions, id)]_vars

\* C9: accept applied to a proposal that is already ACCEPTED leaves the
\* listings unchanged and appends no notification.
C9_AcceptIdempotent ==
    [][\A pid \in Ids(proposals) :
           (/\ ById(proposals, pid).status = "ACCEPTED"
            /\ handle_proposal(pid, "accept"))
           => /\ farmers' = farmers
              /\ notifications' = notifications]_vars

\* C10: once a proposal's status is REJECTED, no step changes it.
C10_RejectedTerminal ==
    [][\A id \in Ids(proposals) :
           ById(proposals, id).status = "REJECTED"
           => ById(proposals', id).status = "REJECTED"]_vars

\* C11: a PAID proposal never becomes ACCEPTED, PENDING or REJECTED, and an
\* ACCEPTED proposal never becomes PENDING or REJECTED, whatever accept,
\* reject and pay-deposit requests are made.
C11_ProposalNeverBackward ==
    [][\A id \in Ids(proposals) :
           /\ ById(proposals, id).status = "PAID"
                  => ById(proposals', id).status = "PAID"
           /\ ById(proposals, id).status = "ACCEPTED"
                  => ById(proposals', id).status \in {"ACCEPTED", "PAID"}]_vars

\* r is the quotient n / d rounded to the nearest integer
IsRounded(r, n, d) ==
    LET diff == r * d - n
    IN  (IF diff < 0 THEN -diff ELSE diff) * 2 <= d

\* the listing has a weight entry
HasWeights(listing_id) ==
    \E i \in 1..Len(weights) : weights[i].listing_id = listing_id

\* total recorded mass of the listing
TotalMass(listing_id) ==
    SumOver(ListingWeights(weights, listing_id), "total_weight")

\* the price of the listing's first PAID proposal
PaidPrice(listing_id) ==
    LET paid == {i \in 1..Len(proposals) :
                    proposals[i].supply_id = listing_id
                    /\ proposals[i].status = "PAID"}
    IN  proposals[CHOOSE i \in paid : \A j \in paid : i <= j].price_offer

\* the transaction a finalize step appended
NewTransaction == transactions'[Len(transactions')]

\* C12: a successful finalize of a listing with weight entries of total mass
\* M, at yield rate y, PAID price p, transport fee t and tax x, records
\* units = M / 15, gross = units * y * p and final = gross - t - x, each
\* rounded to two decimals (units in hundredths, amounts in cents, y in
\* hundredths); M = 3000, y = 0.52, p = 300, t = 200, x = 100 gives units
\* 200, gross 31200 and final 30900.
C12_LiveSettlementFormula ==
    [][\A listing_id \in Ids(farmers), yield_rate \in SettleYields,
          transport_fee \in TransportFees, funrural_tax \in FunruralTaxes,
          user \in SettleUsers :
           (/\ HasWeights(listing_id)
            /\ finalize_transaction(listing_id, yield_rate, transport_fee,
                                    funrural_tax, user)
            /\ last'.status = OK)
           => LET M == TotalMass(listing_id)
                  p == PaidPrice(listing_id)
                  t == NewTransaction
              IN  /\ Len(transactions') = Len(transactions) + 1
                  /\ IsRounded(t.at_quantity, M * 100, ArrobaMass)
                  /\ IsRounded(t.gross_amount, M * yield_rate * p, ArrobaMass)
                  /\ t.final_amount
                         = t.gross_amount - (transport_fee + funrural_tax) * 100
                  /\ (M = 3000 /\ yield_rate = 52 /\ p = 300
                      /\ transport_fee = 200 /\ funrural_tax = 100)
                         => /\ t.at_quantity = 20000
                            /\ t.gross_amount = 3120000
                            /\ t.final_amount = 3090000]_vars

\* C12 happens: the example was finalized (two entries of mass 1500, yield
\* 0.52, price 300, fee 200, tax 100) and its transaction is recorded.
C12_Witness ==
    /\ last.op = "finalize_transaction"
    /\ last.status = OK
    /\ Len(ListingWeights(weights, last.id)) = 2
    /\ \E i \in 1..Len(transactions) :
           /\ transactions[i].listing_id = last.id
           /\ transactions[i].status = "completed"
           /\ transactions[i].total_weight = 3000
           /\ transactions[i].yield_rate = 52
           /\ transactions[i].price_per_unit = 300
           /\ transactions[i].transport_fee = 200
           /\ transactions[i].funrural_tax = 100
           /\ transactions[i].at_quantity = 20000
           /\ transactions[i].gross_amount = 3120000
           /\ transactions[i].final_amount = 3090000

\* C13: finalize with a yield rate below 0.48 or above 0.55 is refused
\* (Unprocessable) and changes nothing: no transaction, no listing, no
\* notification; with a yield rate of 0.48 or 0.55 the request passes the
\* validation, and the owner's finalize of a listing with a PAID proposal
\* succeeds and appends its transaction.
C13_YieldRange ==
    [][\A listing_id \in IdInputs(farmers), yield_rate \in SettleYields,
          transport_fee \in TransportFees, funrural_tax \in FunruralTaxes,
          user \in SettleUsers :
           finalize_transaction(listing_id, yield_rate, transport_fee,
                                funrural_tax, user)
           => /\ (yield_rate < YieldMin \/ yield_rate > YieldMax)
                  => /\ last'.status = Unprocessable
                     /\ UNCHANGED <<threads, started, users, farmers, buyers, proposals, weights,
                                    transactions, notifications, uuid>>
              /\ yield_rate \in {YieldMin, YieldMax}
                  => /\ last'.status # Unprocessable
                     /\ (/\ listing_id \in Ids(farmers)
                         /\ ById(farmers, listing_id).owner_id = user
                         /\ HasPaid(listing_id))
                            => /\ last'.status = OK
                               /\ Len(transactions') = Len(transactions) + 1
                               /\ HasWeights(listing_id)
                                      => NewTransaction.yield_rate = yield_rate]_vars

\* C13 happens: the listing was finalized at 0.48 and at 0.55, and a finalize
\* of that listing, which has a PAID proposal, was refused for its yield rate.
C13_Witness ==
    /\ last.op = "finalize_transaction"
    /\ last.status = Unprocessable
    /\ last.id \in Ids(farmers)
    /\ HasPaid(last.id)
    /\ \E i, j \in 1..Len(transactions) :
           /\ transactions[i].listing_id = last.id
           /\ transactions[j].listing_id = last.id
           /\ transactions[i].status = "completed"
           /\ transactions[j].status = "completed"
           /\ transactions[i].yield_rate = YieldMin
           /\ transactions[j].yield_rate = YieldMax

\* head count recorded so far for the listing
WeighedSoFar(listing_id) ==
    SumOver(ListingWeights(weights, listing_id), "quantity")

\* C14: a successful record-weight-entry appends the entry, returns
\* total_weighed = the sum of the quantities of the listing's entries, the
\* new one included, and remaining = declared quantity - total_weighed (below
\* zero when over-recorded), and appends one weighing-completed notification
\* to the acting user if total_weighed >= declared quantity and none
\* otherwise; a second entry of 5 after a first of 5, against a declared
\* quantity of 10, gives total_weighed 10, remaining 0 and the notification.
C14_WeighingTotals ==
    [][\A listing_id \in Ids(farmers), quantity \in BatchQuantities,
          total_weight \in SettleMasses, user \in SettleUsers :
           (/\ add_weight_entry(listing_id, quantity, total_weight, user)
            /\ last'.status = OK)
           => LET total == WeighedSoFar(listing_id) + quantity
                  declared == ById(farmers, listing_id).quantity
              IN  /\ Len(weights') = Len(weights) + 1
                  /\ last'.total_weighed = total
                  /\ last'.remaining = declared - total
                  /\ IF total >= declared
                     THEN /\ Len(notifications') = Len(notifications) + 1
                          /\ SubSeq(notifications', 1, Len(notifications))
                                 = notifications
                          /\ notifications'[Len(notifications')].user_id = user
                          /\ notifications'[Len(notifications')].message
                                 = "Weighing completed"
                     ELSE notifications' = notifications
                  /\ (quantity = 5 /\ WeighedSoFar(listing_id) = 5
                      /\ declared = 10)
                         => /\ last'.total_weighed = 10
                            /\ last'.remaining = 0
                            /\ Len(notifications') = Len(notifications) + 1]_vars

\* C14 happens: two entries of quantity 5 are recorded against a declared
\* quantity of 10; the second answered total_weighed 10 and remaining 0, and
\* the last notification is the weighing-completed one.
C14_Witness ==
    /\ last.op = "add_weight_entry"
    /\ last.status = OK
    /\ ById(farmers, last.id).quantity = 10
    /\ Len(ListingWeights(weights, last.id)) = 2
    /\ \A i \in 1..Len(weights) : weights[i].quantity = 5
    /\ last.total_weighed = 10
    /\ last.remaining = 0
    /\ notifications # << >>
    /\ notifications[Len(notifications)].message = "Weighing completed"
    /\ notifications[Len(notifications)].user_id = ById(farmers, last.id).owner_id

\* C15: record weight entry is refused with NotFound when no listing has the
\* id, with Forbidden when the listing exists and the acting user is not its
\* owner, and with InvalidState when the owner records against a listing
\* whose status is neither AWAITING_PAYMENT nor SOLD (OPEN, COMPLETED); in
\* each case no weight entry and no notification is appended.
C15_WeighingRefusals ==
    [][\A listing_id \in IdInputs(farmers), quantity \in BatchQuantities,
          total_weight \in SettleMasses, user \in SettleUsers :
           add_weight_entry(listing_id, quantity, total_weight, user)
           => LET known == listing_id \in Ids(farmers)
                  owner == ById(farmers, listing_id).owner_id = user
                  open == ById(farmers, listing_id).status
                              \in {"AWAITING_PAYMENT", "SOLD"}
                  refused == weights' = weights /\ notifications' = notifications
              IN  /\ ~known => last'.status = NotFound /\ refused
                  /\ (known /\ ~owner) => last'.status = Forbidden /\ refused
                  /\ (known /\ owner /\ ~open)
                         => last'.status = InvalidState /\ refused
                  /\ (known /\ owner /\ open) => last'.status = OK]_vars

\* C15 happens: the owner's weight entry against a COMPLETED listing was
\* refused with InvalidState.
C15_Witness ==
    /\ last.op = "add_weight_entry"
    /\ last.status = InvalidState
    /\ last.id \in Ids(farmers)
    /\ ById(farmers, last.id).status = "COMPLETED"
    /\ transactions # << >>

\* indices of the records of the same breed that are OPEN, or have no status
OpenOfBreed(targets, race) ==
    {i \in 1..Len(targets) :
        /\ targets[i].race = race
        /\ ("status" \in DOMAIN targets[i] => targets[i].status = "OPEN")}

\* the notifications a step appended
Appended ==
    SubSeq(notifications', Len(notifications) + 1, Len(notifications'))

\* the step answered with the number of OpenOfBreed records and appended one
\* notification for the owner of each of them, in their order, and no other
MatchedExactly(targets, race) ==
    LET open == OpenOfBreed(targets, race)
    IN  /\ last'.matches = Cardinality(open)
        /\ SubSeq(notifications', 1, Len(notifications)) = notifications
        /\ Len(Appended) = Cardinality(open)
        /\ \A u \in Users :
               Cardinality({k \in 1..Len(Appended) : Appended[k].user_id = u})
                   = Cardinality({i \in open : targets[i].owner_id = u})
        /\ \A k \in 1..Len(Appended) : Appended[k].about = last'.id

\* C16: creating a listing (a demand) answers with a match count equal to the
\* number of demands (listings) of the new record's breed whose status is
\* OPEN or unset, and appends exactly one notification for the owner of each
\* of them and no other notification.
C16_MatchCountAndNotices ==
    [][/\ \A user \in MarketUsers, race \in MarketRaces, quantity \in Quantities :
              create_farmer(user, race, quantity) => MatchedExactly(buyers, race)
       /\ \A user \in MarketUsers, race \in MarketRaces :
              create_buyer(user, race) => MatchedExactly(farmers, race)]_vars

\* C16 happens: a demand was created when two listings of its breed existed,
\* one OPEN and one awaiting payment; it matched one, and the last
\* notification went to the owner of the OPEN one.
C16_Witness ==
    /\ last.op = "create_buyer"
    /\ last.matches = 1
    /\ Len(farmers) = 2
    /\ buyers # << >>
    /\ buyers[Len(buyers)].id = last.id
    /\ \A i \in 1..Len(farmers) : farmers[i].race = buyers[Len(buyers)].race
    /\ \E i, j \in 1..Len(farmers) :
           /\ farmers[i].status = "OPEN"
           /\ farmers[j].status = "AWAITING_PAYMENT"
           /\ farmers[i].owner_id # farmers[j].owner_id
           /\ notifications # << >>
           /\ notifications[Len(notifications)].about = last.id
           /\ notifications[Len(notifications)].user_id = farmers[i].owner_id

\* listing.get('buyer_id')
BuyerReference(listing) ==
    IF "buyer_id" \in DOMAIN listing THEN listing.buyer_id ELSE None

\* C17: every successful finalize, with or without weight entries, appends
\* exactly one transaction, which is for the listing; sets the listing's
\* status to COMPLETED and its transaction_id to the id of that transaction;
\* and appends exactly two notifications, both addressed to the listing's
\* buyer reference.
C17_FinalizeEffects ==
    [][\A listing_id \in Ids(farmers), yield_rate \in SettleYields,
          transport_fee \in TransportFees, funrural_tax \in FunruralTaxes,
          user \in SettleUsers :
           (/\ finalize_transaction(listing_id, yield_rate, transport_fee,
                                    funrural_tax, user)
            /\ last'.status = OK)
           => LET after == ById(farmers', listing_id)
              IN  /\ Len(transactions') = Len(transactions) + 1
                  /\ SubSeq(transactions', 1, Len(transactions)) = transactions
                  /\ NewTransaction.listing_id = listing_id
                  /\ NewTransaction.id \notin Ids(transactions)
                  /\ after.status = "COMPLETED"
                  /\ "transaction_id" \in DOMAIN after
                  /\ after.transaction_id = NewTransaction.id
                  /\ SubSeq(notifications', 1, Len(notifications))
                         = notifications
                  /\ Len(Appended) = 2
                  /\ \A k \in 1..Len(Appended) :
                         Appended[k].user_id
                             = BuyerReference(ById(farmers, listing_id))]_vars

\* C17 happens: a listing accepted for and paid by buyer1 was finalized with
\* no weight entry; it is COMPLETED, linked to its one transaction, and the
\* last two notifications are addressed to buyer1.
C17_Witness ==
    /\ last.op = "finalize_transaction"
    /\ last.status = OK
    /\ ById(farmers, last.id).status = "COMPLETED"
    /\ BuyerReference(ById(farmers, last.id)) = "buyer1"
    /\ Len(transactions) = 1
    /\ transactions[1].status = "awaiting_slaughterhouse_weight"
    /\ ById(farmers, last.id).transaction_id = transactions[1].id
    /\ Len(notifications) >= 2
    /\ notifications[Len(notifications)].user_id = "buyer1"
    /\ notifications[Len(notifications)].message = "Deposit refunded"
    /\ notifications[Len(notifications) - 1].user_id = "buyer1"
    /\ notifications[Len(notifications) - 1].message = "Transaction completed"

\* the transaction carries an amount
HasAmount(t) == "final_amount" \in DOMAIN t \/ "gross_amount" \in DOMAIN t

\* C18: the transaction a successful finalize creates has status completed
\* and a final amount when the listing has at least one weight entry, and
\* otherwise has status awaiting_slaughterhouse_weight and no amount; a
\* transaction without an amount gets one only in a slaughterhouse
\* submission for that transaction.
C18_SettlementMode ==
    [][/\ \A listing_id \in Ids(farmers), yield_rate \in SettleYields,
             transport_fee \in TransportFees, funrural_tax \in FunruralTaxes,
             user \in SettleUsers :
              (/\ finalize_transaction(listing_id, yield_rate, transport_fee,
                                       funrural_tax, user)
               /\ last'.status = OK)
              => IF HasWeights(listing_id)
                 THEN /\ NewTransaction.status = "completed"
                      /\ "final_amount" \in DOMAIN NewTransaction
                 ELSE /\ NewTransaction.status
                             = "awaiting_slaughterhouse_weight"
                      /\ ~HasAmount(NewTransaction)
       /\ \A id \in Ids(transactions) :
              (~HasAmount(ById(transactions, id))
               /\ HasAmount(ById(transactions', id)))
              => /\ last'.op = "submit_slaughterhouse_weight"
                 /\ last'.id = id
                 /\ last'.status = OK]_vars

\* C18 happens: a listing with no weight entry was finalized; its transaction
\* awaits the slaughterhouse weight and carries no amount.
C18_Witness ==
    /\ last.op = "finalize_transaction"
    /\ last.status = OK
    /\ ~HasWeights(last.id)
    /\ transactions # << >>
    /\ transactions[Len(transactions)].listing_id = last.id
    /\ transactions[Len(transactions)].status = "awaiting_slaughterhouse_weight"
    /\ ~HasAmount(transactions[Len(transactions)])

\* C19: a successful accept of a proposal whose listing exists sets the
\* proposal's status to ACCEPTED, the listing's status to AWAITING_PAYMENT
\* and the listing's buyer reference to the proposal's buyer, and appends
\* exactly one notification, addressed to that buyer, all in the one step.
C19_AcceptEffects ==
    [][\A pid \in Ids(proposals) :
           (/\ ById(proposals, pid).supply_id \in Ids(farmers)
            /\ handle_proposal(pid, "accept"))
           => LET prop == ById(proposals, pid)
                  after == ById(farmers', prop.supply_id)
              IN  /\ last'.status = OK
                  /\ ById(proposals', pid).status = "ACCEPTED"
                  /\ after.status = "AWAITING_PAYMENT"
                  /\ "buyer_id" \in DOMAIN after
                  /\ after.buyer_id = prop.buyer_id
                  /\ SubSeq(notifications', 1, Len(notifications))
                         = notifications
                  /\ Len(Appended) = 1
                  /\ Appended[1].user_id = prop.buyer_id
                  /\ Appended[1].message = "Offer Accepted"]_vars

\* C19 happens: of two proposals on a listing, buyer2's was accepted: it is
\* ACCEPTED, the listing awaits payment with buyer2 as its buyer reference,
\* and the last notification tells buyer2.
C19_Witness ==
    /\ last.op = "handle_proposal"
    /\ last.status = OK
    /\ Len(proposals) = 2
    /\ ById(proposals, last.id).status = "ACCEPTED"
    /\ ById(proposals, last.id).buyer_id = "buyer2"
    /\ \E i \in 1..Len(proposals) :
           proposals[i].buyer_id = "buyer1" /\ proposals[i].status = "PENDING"
    /\ ById(farmers, ById(proposals, last.id).supply_id).status
           = "AWAITING_PAYMENT"
    /\ BuyerReference(ById(farmers, ById(proposals, last.id).supply_id))
           = "buyer2"
    /\ notifications[Len(notifications)].message = "Offer Accepted"
    /\ notifications[Len(notifications)].user_id = "buyer2"
    /\ notifications[Len(notifications)].about = last.id

\* C20: handle_proposal on an existing proposal with an action that is
\* neither accept nor reject answers OK and leaves every proposal, listing
\* and notification as it was.
C20_OtherActionNoOp ==
    [][\A pid \in Ids(proposals), action \in Actions \ {"accept", "reject"} :
           handle_proposal(pid, action)
           => /\ last'.status = OK
              /\ proposals' = proposals
              /\ farmers' = farmers
              /\ notifications' = notifications]_vars

\* C20 happens: handle_proposal answered OK on a proposal that is still
\* PENDING, which only an action other than accept and reject leaves so.
C20_Witness ==
    /\ last.op = "handle_proposal"
    /\ last.status = OK
    /\ last.id \in Ids(proposals)
    /\ ById(proposals, last.id).status = "PENDING"

\* the user is registered with the role farmer
IsFarmer(user) ==
    \E i \in 1..Len(users) :
        users[i].username = user /\ users[i].role = "farmer"

\* C21: a proposal submitted against an existing OPEN listing by a user whose
\* role is farmer is refused with Forbidden, and no proposal and no
\* notification is appended.
C21_FarmerForbidden ==
    [][\A supply_id \in Ids(farmers), price_offer \in Prices, user \in Users :
           (/\ ById(farmers, supply_id).status = "OPEN"
            /\ IsFarmer(user)
            /\ create_proposal(supply_id, price_offer, user))
           => /\ last'.status = Forbidden
              /\ proposals' = proposals
              /\ notifications' = notifications]_vars

\* C22: pay deposit is refused with NotFound when no proposal has the id or
\* the proposal's listing is gone, and with Forbidden only when the proposal
\* exists and its buyer is not the paying user.
C22_PayDepositErrors ==
    [][\A pid \in IdInputs(proposals), user \in Users :
           pay_fee(pid, user)
           => /\ pid \notin Ids(proposals) => last'.status = NotFound
              /\ last'.status = Forbidden
                     => /\ pid \in Ids(proposals)
                        /\ ById(proposals, pid).buyer_id # user
              /\ (/\ pid \in Ids(proposals)
                  /\ ById(proposals, pid).buyer_id = user
                  /\ ById(proposals, pid).supply_id \notin Ids(farmers))
                     => last'.status = NotFound]_vars

\* C23: a slaughterhouse submission for an id no transaction has is refused
\* with NotFound and changes nothing; for a known transaction it answers OK
\* whatever the yield rate, sets the status to completed and the final amount
\* to (final mass / 15) * yield rate * unit price, rounded to two decimals,
\* with no transport fee and no tax taken off, leaves the other transactions
\* and the listings alone, and appends one notification, addressed to the
\* owner of the transaction's listing.
C23_SlaughterhouseSubmission ==
    [][\A transaction_id \in IdInputs(transactions),
          final_weight \in SettleFinalWeights, yield_rate \in YieldRates,
          price_per_unit \in Prices :
           submit_slaughterhouse_weight(transaction_id, final_weight,
                                        yield_rate, price_per_unit)
           => IF transaction_id \notin Ids(transactions)
              THEN /\ last'.status = NotFound
                   /\ UNCHANGED <<threads, started, users, farmers, buyers, proposals, weights,
                                  transactions, notifications, uuid>>
              ELSE LET t == ById(transactions', transaction_id)
                       listing == ById(farmers,
                                       ById(transactions, transaction_id).listing_id)
                   IN  /\ last'.status = OK
                       /\ t.status = "completed"
                       /\ t.yield_rate = yield_rate
                       /\ IsRounded(t.final_amount,
                                    final_weight * yield_rate * price_per_unit,
                                    ArrobaMass)
                       /\ Len(transactions') = Len(transactions)
                       /\ \A i \in 1..Len(transactions) :
                              transactions[i].id # transaction_id
                                  => transactions'[i] = transactions[i]
                       /\ farmers' = farmers
                       /\ SubSeq(notifications', 1, Len(notifications))
                              = notifications
                       /\ Len(Appended) = 1
                       /\ Appended[1].user_id = listing.owner_id]_vars

\* C23 happens: a transaction finalized with a transport fee of 200 and a tax
\* of 100 was completed by a submission of mass 4500 at yield rate 0.60,
\* outside the range of finalize, and price 300: its final amount is 54000,
\* and the last notification is addressed to the listing's owner.
C23_Witness ==
    /\ last.op = "submit_slaughterhouse_weight"
    /\ last.status = OK
    /\ \E i \in 1..Len(transactions) :
           /\ transactions[i].id = last.id
           /\ transactions[i].status = "completed"
           /\ "slaughterhouse_weight" \in DOMAIN transactions[i]
           /\ transactions[i].slaughterhouse_weight = 4500
           /\ transactions[i].yield_rate = 60
           /\ transactions[i].price_per_unit = 300
           /\ transactions[i].transport_fee = 200
           /\ transactions[i].funrural_tax = 100
           /\ transactions[i].final_amount = 5400000
           /\ notifications[Len(notifications)].message
                  = "Final weighing completed"
           /\ notifications[Len(notifications)].user_id
                  = ById(farmers, transactions[i].listing_id).owner_id

\* C24: every change of a listing's status is OPEN -> AWAITING_PAYMENT by an
\* accept, AWAITING_PAYMENT -> SOLD by a pay deposit, or SOLD -> COMPLETED by
\* a finalize; so pay deposit never takes a listing from OPEN to SOLD, and
\* finalize never completes a listing that is not SOLD.
C24_OnlyLifecycleEdges ==
    [][\A id \in Ids(farmers) :
           LET from == ById(farmers, id).status
               to == ById(farmers', id).status
           IN  from # to
               => \/ /\ from = "OPEN" /\ to = "AWAITING_PAYMENT"
                     /\ last'.op = "handle_proposal"
                  \/ /\ from = "AWAITING_PAYMENT" /\ to = "SOLD"
                     /\ last'.op = "pay_fee"
                  \/ /\ from = "SOLD" /\ to = "COMPLETED"
                     /\ last'.op = "finalize_transaction"]_vars

\* a proposal of the listing with this status and this buyer exists
HasProposalOf(listing_id, status, buyer) ==
    \E i \in 1..Len(proposals) :
        /\ proposals[i].supply_id = listing_id
        /\ proposals[i].status = status
        /\ proposals[i].buyer_id = buyer

\* C27: in every reachable state, every listing whose status is
\* AWAITING_PAYMENT has an ACCEPTED proposal whose buyer is the listing's
\* buyer reference.
C27_AwaitingHasAccepted ==
    \A i \in 1..Len(farmers) :
        farmers[i].status = "AWAITING_PAYMENT"
            => HasProposalOf(farmers[i].id, "ACCEPTED", BuyerReference(farmers[i]))

\* C28: in every reachable state, every listing whose status is SOLD has a
\* PAID proposal whose buyer is the listing's buyer reference.
C28_SoldHasPaid ==
    \A i \in 1..Len(farmers) :
        farmers[i].status = "SOLD"
            => HasProposalOf(farmers[i].id, "PAID", BuyerReference(farmers[i]))

\* the statuses of a refused request
Refusals == {NotFound, Forbidden, InvalidState}

\* C29: a request to create_proposal, handle_proposal, pay_fee,
\* add_weight_entry, finalize_transaction or submit_slaughterhouse_weight
\* that is answered NotFound, Forbidden or InvalidState leaves the listings,
\* proposals, weight entries, transactions and notifications as they were.
C29_RefusalChangesNothing ==
    [][(/\ last'.op \in {"create_proposal", "handle_proposal", "pay_fee",
                         "add_weight_entry", "finalize_transaction",
                         "submit_slaughterhouse_weight"}
        /\ last'.status \in Refusals)
       => UNCHANGED <<farmers, proposals, weights, transactions,
                      notifications>>]_vars

\* C29 happens: a weight entry against a SOLD listing, by a user who is not
\* its owner, was refused with Forbidden.
C29_Witness ==
    /\ last.op = "add_weight_entry"
    /\ last.status = Forbidden
    /\ last.id \in Ids(farmers)
    /\ ById(farmers, last.id).status = "SOLD"
    /\ HasPaid(last.id)

\* C30: a transaction is appended, or a listing's status becomes COMPLETED,
\* only in a successful finalize_transaction step on that listing; and a
\* finalize_transaction by a user who is not the listing's owner, or on an id
\* no listing has, creates no transaction and changes no listing.
C30_OnlyOwnerFinalizes ==
    [][/\ (\/ Len(transactions') > Len(transactions)
           \/ \E id \in Ids(farmers) :
                  /\ ById(farmers, id).status # "COMPLETED"
                  /\ ById(farmers', id).status = "COMPLETED")
          => /\ last'.op = "finalize_transaction"
             /\ last'.status = OK
             /\ Len(transactions') = Len(transactions) + 1
             /\ NewTransaction.listing_id = last'.id
             /\ ById(farmers', last'.id).status = "COMPLETED"
             /\ \A id \in Ids(farmers) \ {last'.id} :
                    ById(farmers', id) = ById(farmers, id)
       /\ \A listing_id \in IdInputs(farmers), yield_rate \in YieldRates,
             transport_fee \in TransportFees, funrural_tax \in FunruralTaxes,
             user \in Users :
              (/\ finalize_transaction(listing_id, yield_rate, transport_fee,
                                       funrural_tax, user)
               /\ \/ listing_id \notin Ids(farmers)
                  \/ ById(farmers, listing_id).owner_id # user)
              => /\ last'.status # OK
                 /\ transactions' = transactions
                 /\ farmers' = farmers]_vars

\* C30 happens: the owner finalized the listing, which is COMPLETED and has
\* its one transaction, and a finalize of the same listing, whose proposal is
\* PAID, by another user was refused with Forbidden.
C30_Witness ==
    /\ last.op = "finalize_transaction"
    /\ last.status = Forbidden
    /\ last.id \in Ids(farmers)
    /\ HasPaid(last.id)
    /\ ById(farmers, last.id).status = "COMPLETED"
    /\ Len(transactions) = 1
    /\ transactions[1].listing_id = last.id

\* the request of slot u answered OK after writing the proposal file
Wrote(u) ==
    /\ threads[u].pc = "done"
    /\ threads[u].status = OK
    /\ threads[u].saved_proposals

\* the update the request of slot u made to the proposals is in the list:
\* the record it appended, or the status it gave its proposal
Visible(u, list) ==
    IF threads[u].op = "create_proposal"
    THEN threads[u].rec.id \in Ids(list)
    ELSE \E i \in 1..Len(list) :
             /\ list[i].id = threads[u].id
             /\ list[i].status = ById(threads[u].P, threads[u].id).status

\* the list the request of slot t is about to write to the proposal file
Written(t) ==
    IF threads[t].pc = "append_save"
    THEN Append(threads[t].P, threads[t].rec)
    ELSE threads[t].P

\* C25: with two requests interleaved at their loads and saves, a save of the
\* proposal file by one request removes from the file every update of the
\* other, already answered OK, that was saved after the first loaded the file
\* (the update is not in the list it writes); so a state is reached where
\* both requests answered OK and the first writer's update is missing.
C25_LostUpdate ==
    [][\A t, u \in Slots :
           (/\ t # u
            /\ append_save(t) \/ save_proposals(t)
            /\ Wrote(u)
            /\ ~Visible(u, Written(t)))
           => /\ ~Visible(u, proposals')
              /\ threads'[t].pc = "done" => threads'[t].status = OK]_vars

\* C25 happens: two submissions have both answered OK, and the proposal file
\* holds the record of one of them and not the record of the other.
C25_Witness ==
    \E t, u \in Slots :
        /\ t # u
        /\ threads[t].op = "create_proposal"
        /\ threads[u].op = "create_proposal"
        /\ Wrote(t)
        /\ Wrote(u)
        /\ threads[t].rec.id \in Ids(proposals)
        /\ threads[u].rec.id \notin Ids(proposals)

\* the request of slot t has saved the listing file and not the proposal file
BetweenSaves(t) ==
    /\ threads[t].saved_farmers
    /\ ~threads[t].saved_proposals

\* the request of slot t changes a listing and a proposal: an accept that
\* found the listing, or a pay deposit
WritesBoth(t) ==
    \/ threads[t].op = "pay_fee"
    \/ /\ threads[t].op = "handle_proposal"
       /\ threads[t].action = "accept"
       /\ threads[t].F # << >>

\* C26: accept and pay deposit save the listing file before the proposal
\* file, and a failure between the two saves takes nothing back: after a failed
\* accept the files hold the listing AWAITING_PAYMENT with the proposal's
\* buyer while the proposal has the status it had before (still PENDING);
\* after a failed pay deposit the listing is SOLD and the proposal has the
\* status it had before (not PAID).
C26_FailureBetweenSaves ==
    [][\A t \in Slots :
           /\ (save_proposals(t) /\ WritesBoth(t)) => threads[t].saved_farmers
           /\ (fail(t) /\ BetweenSaves(t)) =>
                  LET th == threads[t]
                      prop == ById(proposals', th.id)
                      listing == ById(farmers', prop.supply_id)
                  IN  /\ threads'[t].status = ServerError
                      /\ prop.status = th.before
                      /\ IF th.op = "handle_proposal"
                         THEN /\ listing.status = "AWAITING_PAYMENT"
                              /\ "buyer_id" \in DOMAIN listing
                              /\ listing.buyer_id = prop.buyer_id
                              /\ th.before = "PENDING" => prop.status = "PENDING"
                         ELSE /\ listing.status = "SOLD"
                              /\ th.before # "PAID" => prop.status # "PAID"]_vars

\* C26 happens: an accept has failed after saving the listing file, and the
\* files hold the listing AWAITING_PAYMENT with a buyer and the proposal
\* PENDING.
C26_Witness ==
    \E t \in Slots :
        /\ threads[t].pc = "failed"
        /\ threads[t].op = "handle_proposal"
        /\ BetweenSaves(t)
        /\ ById(proposals, threads[t].id).status = "PENDING"
        /\ LET listing == ById(farmers, ById(proposals, threads[t].id).supply_id)
           IN  /\ listing.status = "AWAITING_PAYMENT"
               /\ "buyer_id" \in DOMAIN listing

\* the listing has a proposal that has been accepted, and no transaction has
\* been recorded yet
AcceptedFor(listing_id) ==
    /\ listing_id \in Ids(farmers)
    /\ \E i \in 1..Len(proposals) :
           /\ proposals[i].supply_id = listing_id
           /\ proposals[i].status = "ACCEPTED"
    /\ transactions = << >>

\* the listing is COMPLETED
Completed(listing_id) ==
    /\ listing_id \in Ids(farmers)
    /\ ById(farmers, listing_id).status = "COMPLETED"

\* C31: in sequential execution, with the buyer of a proposal paying its
\* deposit and the owner finalizing (yield rate in range) whenever they can, a
\* listing with an accepted proposal eventually reaches COMPLETED.
C31_AcceptedLeadsToCompleted ==
    \A listing_id \in LiveIds : AcceptedFor(listing_id) ~> Completed(listing_id)

====
